---- MODULE Spec2Model ----
(***************************************************************************)
(* glean_parser/lint.py: the glinter checks and the lint_metrics driver.   *)
(*                                                                         *)
(* Python values are represented as follows.                               *)
(*   str    a sequence of one-character strings, <<"f","o","o">>           *)
(*   list   a sequence                                                     *)
(*   dict   a sequence of <<key, value>> pairs in insertion order          *)
(*   object a record; hasattr(o, "a") is "a" \in DOMAIN o                  *)
(* Check names are opaque and only compared for equality, so they are kept *)
(* as TLA+ strings.  A message is a record [text, args]: text identifies   *)
(* the f-string template and args holds its interpolated values.           *)
(***************************************************************************)
EXTENDS Integers, Sequences, FiniteSets, TLC

VARIABLES
    objs,           \* lint_metrics: the tree, category name -> metric name -> metric
    parser_config,  \* the parser configuration dict
    nits,           \* the list returned by the last lint_metrics call
    file,           \* the lines lint_metrics printed to the stream
    prev,           \* the list returned by the call before the last one
    edit,           \* how the caller changed objs between the two calls, and
                    \* the items it removed
    category_name,  \* check_common_prefix: first argument
    metrics,        \* check_common_prefix: second argument (metrics.values())
    metric,         \* argument of an individual check called on its own
    msgs,           \* the messages that check yielded
    pc              \* "ready" before a call, "returned" after it

vars == <<objs, parser_config, nits, file, prev, edit, category_name, metrics,
          metric, msgs, pc>>

----------------------------------------------------------------------------
(* Python built-ins used by lint.py *)

Range(s) == {s[i] : i \in 1..Len(s)}

MinOf(S) == CHOOSE x \in S : \A y \in S : x <= y

\* None, as returned by dict.get for a missing key; no str equals it.
None == <<"None">>

\* The characters that occur in the modelled names, in code point order.
Alphabet ==
    <<" ", ",", ".", "0", "1", "2", "3", "4", "5", "6", "7", "8", "9", "_",
      "a", "b", "c", "d", "e", "f", "g", "h", "i", "j", "k", "l", "m",
      "n", "o", "p", "q", "r", "s", "t", "u", "v", "w", "x", "y", "z">>

\* ord(c)
Ord(c) == CHOOSE i \in 1..Len(Alphabet) : Alphabet[i] = c

\* str1 < str2: the first differing character decides, else the shorter is less.
StrLess(a, b) ==
    LET n == IF Len(a) < Len(b) THEN Len(a) ELSE Len(b)
        d == {i \in 1..n : a[i] # b[i]}
    IN  IF d = {} THEN Len(a) < Len(b)
        ELSE Ord(a[MinOf(d)]) < Ord(b[MinOf(d)])

\* list1 < list2 for lists of str
WordsLess(a, b) ==
    LET n == IF Len(a) < Len(b) THEN Len(a) ELSE Len(b)
        d == {i \in 1..n : a[i] # b[i]}
    IN  IF d = {} THEN Len(a) < Len(b)
        ELSE StrLess(a[MinOf(d)], b[MinOf(d)])

\* sorted(list of lists of str): a stable insertion sort
RECURSIVE InsertWords(_, _)
InsertWords(x, s) ==
    IF s = <<>> THEN <<x>>
    ELSE IF WordsLess(x, Head(s)) THEN <<x>> \o s
    ELSE <<Head(s)>> \o InsertWords(x, Tail(s))

RECURSIVE SortedWords(_)
SortedWords(s) ==
    IF s = <<>> THEN <<>>
    ELSE InsertWords(s[Len(s)], SortedWords(SubSeq(s, 1, Len(s) - 1)))

\* sorted(list(d.items())) for a dict with str keys: the keys are distinct, so
\* the tuple comparison never reaches the values.
RECURSIVE InsertItem(_, _)
InsertItem(x, s) ==
    IF s = <<>> THEN <<x>>
    ELSE IF StrLess(x[1], Head(s)[1]) THEN <<x>> \o s
    ELSE <<Head(s)>> \o InsertItem(x, Tail(s))

RECURSIVE SortedItems(_)
SortedItems(s) ==
    IF s = <<>> THEN <<>>
    ELSE InsertItem(s[Len(s)], SortedItems(SubSeq(s, 1, Len(s) - 1)))

\* d.keys(), d.values(), d.get(k, default)
Keys(d) == [i \in 1..Len(d) |-> d[i][1]]
Values(d) == [i \in 1..Len(d) |-> d[i][2]]
Get(d, k, default) ==
    IF \E i \in 1..Len(d) : d[i][1] = k
    THEN d[CHOOSE i \in 1..Len(d) : d[i][1] = k][2]
    ELSE default

\* sep.join(words)
RECURSIVE Join(_, _)
Join(sep, words) ==
    IF words = <<>> THEN <<>>
    ELSE IF Len(words) = 1 THEN words[1]
    ELSE words[1] \o sep \o Join(sep, Tail(words))

\* the concatenation of a list of lists
RECURSIVE Flatten(_)
Flatten(ss) == IF ss = <<>> THEN <<>> ELSE Head(ss) \o Flatten(Tail(ss))

----------------------------------------------------------------------------
(* lint.py: helpers *)

\* re.split("[._]", name): every delimiter ends a word, empty words are kept.
RECURSIVE SplitFrom(_, _, _)
SplitFrom(name, i, word) ==
    IF i > Len(name) THEN <<word>>
    ELSE IF name[i] \in {".", "_"}
         THEN <<word>> \o SplitFrom(name, i + 1, <<>>)
         ELSE SplitFrom(name, i + 1, Append(word, name[i]))

_split_words(name) == SplitFrom(name, 1, <<>>)

\* zip(str1, str2) stops at the shorter argument; diffs counts the pairs that
\* differ.
RECURSIVE CountDiffs(_, _, _)
CountDiffs(str1, str2, k) ==
    IF k > Len(str1) \/ k > Len(str2) THEN 0
    ELSE (IF str1[k] # str2[k] THEN 1 ELSE 0) + CountDiffs(str1, str2, k + 1)

\* _hamming_distance without the padding of str2: zip drops the extra
\* characters of the longer string.
_hamming_distance_NoPadding(str1, str2) ==
    LET s1 == IF Len(str1) < Len(str2) THEN str2 ELSE str1
        s2 == IF Len(str1) < Len(str2) THEN str1 ELSE str2
    IN  CountDiffs(s1, s2, 1)

\* The longer string is str1 after the swap and str2 is padded with spaces.
_hamming_distance(str1, str2) ==
    LET s1 == IF Len(str1) < Len(str2) THEN str2 ELSE str1
        s2 == IF Len(str1) < Len(str2) THEN str1 ELSE str2
        len_dist == Len(s1) - Len(s2)
    IN  CountDiffs(s1, s2 \o [k \in 1..len_dist |-> " "], 1)

----------------------------------------------------------------------------
(* lint.py: the category checks *)

\* The value of i after the for loop of check_common_prefix (0-based): the
\* index of the first mismatch when the loop breaks, else the last index of
\* the range.  Every word list has at least one word, so the range is never
\* empty.
LoopIndex(first, last) ==
    LET n == IF Len(first) < Len(last) THEN Len(first) ELSE Len(last)
        mismatches == {i \in 0..(n - 1) : first[i + 1] # last[i + 1]}
    IN  IF mismatches # {} THEN MinOf(mismatches) ELSE n - 1

check_common_prefix(category, ms) ==
    LET metric_words == SortedWords([k \in 1..Len(ms) |-> _split_words(ms[k].name)])
    IN  IF Len(metric_words) < 2 THEN <<>>
        ELSE LET first == metric_words[1]
                 last == metric_words[Len(metric_words)]
                 i == LoopIndex(first, last)
             IN  IF i > 0
                 THEN <<[text |-> "all metrics begin with prefix",
                         args |-> <<category, Join(<<"_">>, SubSeq(first, 1, i))>>]>>
                 ELSE <<>>

GENERIC_CATEGORIES ==
    <<<<"m", "e", "t", "r", "i", "c", "s">>, <<"e", "v", "e", "n", "t", "s">>>>

check_category_generic(category, ms) ==
    IF category \in Range(GENERIC_CATEGORIES)
    THEN <<[text |-> "Category is too generic", args |-> <<category>>]>>
    ELSE <<>>

----------------------------------------------------------------------------
(* lint.py: the individual checks *)

TIME_UNIT_ABBREV ==
    <<<<<<"n", "a", "n", "o", "s", "e", "c", "o", "n", "d">>, <<"n", "s">>>>,
      <<<<"m", "i", "c", "r", "o", "s", "e", "c", "o", "n", "d">>, <<"u", "s">>>>,
      <<<<"m", "i", "l", "l", "i", "s", "e", "c", "o", "n", "d">>, <<"m", "s">>>>,
      <<<<"s", "e", "c", "o", "n", "d">>, <<"s">>>>,
      <<<<"m", "i", "n", "u", "t", "e">>, <<"m">>>>,
      <<<<"h", "o", "u", "r">>, <<"h">>>>,
      <<<<"d", "a", "y">>, <<"d">>>>>>

MEMORY_UNIT_ABBREV ==
    <<<<<<"b", "y", "t", "e">>, <<"b">>>>,
      <<<<"k", "i", "l", "o", "b", "y", "t", "e">>, <<"k", "b">>>>,
      <<<<"m", "e", "g", "a", "b", "y", "t", "e">>, <<"m", "b">>>>,
      <<<<"g", "i", "g", "a", "b", "y", "t", "e">>, <<"g", "b">>>>>>

\* check_unit_in_name testing hasattr(metric, "memory_unit") first.
check_unit_in_name_MemoryFirst(m, config) ==
    LET name_words == _split_words(m.name)
        unit_in_name == name_words[Len(name_words)]
    IN  IF "memory_unit" \in DOMAIN m
        THEN IF \/ unit_in_name = Get(MEMORY_UNIT_ABBREV, m.memory_unit.name, None)
                \/ unit_in_name = m.memory_unit.name
             THEN <<[text |-> "Suffix is redundant with memory_unit",
                     args |-> <<unit_in_name>>]>>
             ELSE IF \/ unit_in_name \in Range(Keys(MEMORY_UNIT_ABBREV))
                     \/ unit_in_name \in Range(Values(MEMORY_UNIT_ABBREV))
             THEN <<[text |-> "Suffix doesn't match memory_unit",
                     args |-> <<unit_in_name>>]>>
             ELSE <<>>
        ELSE IF "time_unit" \in DOMAIN m
        THEN IF \/ unit_in_name = Get(TIME_UNIT_ABBREV, m.time_unit.name, None)
                \/ unit_in_name = m.time_unit.name
             THEN <<[text |-> "Suffix is redundant with time_unit",
                     args |-> <<unit_in_name>>]>>
             ELSE IF \/ unit_in_name \in Range(Keys(TIME_UNIT_ABBREV))
                     \/ unit_in_name \in Range(Values(TIME_UNIT_ABBREV))
             THEN <<[text |-> "Suffix doesn't match time_unit",
                     args |-> <<unit_in_name>>]>>
             ELSE <<>>
        ELSE IF "unit" \in DOMAIN m
        THEN IF unit_in_name = m.unit
             THEN <<[text |-> "Suffix is redundant with unit param",
                     args |-> <<unit_in_name>>]>>
             ELSE <<>>
        ELSE <<>>

check_unit_in_name(m, config) ==
    LET name_words == _split_words(m.name)
        unit_in_name == name_words[Len(name_words)]
    IN  IF "time_unit" \in DOMAIN m
        THEN IF \/ unit_in_name = Get(TIME_UNIT_ABBREV, m.time_unit.name, None)
                \/ unit_in_name = m.time_unit.name
             THEN <<[text |-> "Suffix is redundant with time_unit",
                     args |-> <<unit_in_name>>]>>
             ELSE IF \/ unit_in_name \in Range(Keys(TIME_UNIT_ABBREV))
                     \/ unit_in_name \in Range(Values(TIME_UNIT_ABBREV))
             THEN <<[text |-> "Suffix doesn't match time_unit",
                     args |-> <<unit_in_name>>]>>
             ELSE <<>>
        ELSE IF "memory_unit" \in DOMAIN m
        THEN IF \/ unit_in_name = Get(MEMORY_UNIT_ABBREV, m.memory_unit.name, None)
                \/ unit_in_name = m.memory_unit.name
             THEN <<[text |-> "Suffix is redundant with memory_unit",
                     args |-> <<unit_in_name>>]>>
             ELSE IF \/ unit_in_name \in Range(Keys(MEMORY_UNIT_ABBREV))
                     \/ unit_in_name \in Range(Values(MEMORY_UNIT_ABBREV))
             THEN <<[text |-> "Suffix doesn't match memory_unit",
                     args |-> <<unit_in_name>>]>>
             ELSE <<>>
        ELSE IF "unit" \in DOMAIN m
        THEN IF unit_in_name = m.unit
             THEN <<[text |-> "Suffix is redundant with unit param",
                     args |-> <<unit_in_name>>]>>
             ELSE <<>>
        ELSE <<>>

\* A bug is [isint, text]: isinstance(bug, int) and str(bug).
check_bug_number(m, config) ==
    LET ints == SelectSeq(m.bugs, LAMBDA bug : bug.isint)
        number_bugs == [k \in 1..Len(ints) |-> ints[k].text]
    IN  IF Len(number_bugs) # 0
        THEN <<[text |-> "Bug numbers are deprecated",
                args |-> <<Join(<<",", " ">>, number_bugs)>>]>>
        ELSE <<>>

check_valid_in_baseline(m, config) ==
    LET allow_reserved == Get(config, "allow_reserved", FALSE)
    IN  IF ~allow_reserved
           /\ <<"b", "a", "s", "e", "l", "i", "n", "e">> \in Range(m.send_in_pings)
        THEN <<[text |-> "The baseline ping is Glean-internal", args |-> <<>>]>>
        ELSE <<>>

builtin_pings ==
    <<<<"m", "e", "t", "r", "i", "c", "s">>, <<"e", "v", "e", "n", "t", "s">>>>

\* The messages of the inner loop for one ping, builtins in list order.
PingMessages(ping) ==
    LET hits == SelectSeq(builtin_pings,
                          LAMBDA builtin : _hamming_distance(ping, builtin) = 1)
    IN  [k \in 1..Len(hits) |->
            [text |-> "Ping seems misspelled", args |-> <<ping, hits[k]>>]]

check_misspelled_pings(m, config) ==
    Flatten([k \in 1..Len(m.send_in_pings) |-> PingMessages(m.send_in_pings[k])])

----------------------------------------------------------------------------
(* lint.py: the registries and the driver *)

\* The keys of the two registries in insertion order, and the call of the
\* function registered under a key.
CATEGORY_CHECKS == <<"COMMON_PREFIX", "CATEGORY_GENERIC">>

INDIVIDUAL_CHECKS ==
    <<"UNIT_IN_NAME", "BUG_NUMBER", "BASELINE_PING", "MISSPELLED_PING">>

CategoryCheckFunc(check_name, category, ms) ==
    CASE check_name = "COMMON_PREFIX" -> check_common_prefix(category, ms)
      [] check_name = "CATEGORY_GENERIC" -> check_category_generic(category, ms)

IndividualCheckFunc(check_name, m, config) ==
    CASE check_name = "UNIT_IN_NAME" -> check_unit_in_name(m, config)
      [] check_name = "BUG_NUMBER" -> check_bug_number(m, config)
      [] check_name = "BASELINE_PING" -> check_valid_in_baseline(m, config)
      [] check_name = "MISSPELLED_PING" -> check_misspelled_pings(m, config)

\* f"{metric.category}.{metric.name}"
Scope(m) == m.category \o <<".">> \o m.name

\* CategoryCheckNits skipping the check only when every metric lists it.
CategoryCheckNits_AllListed(check_name, category, ms) ==
    IF \A k \in 1..Len(ms) : check_name \in Range(ms[k].no_lint)
    THEN <<>>
    ELSE LET found == CategoryCheckFunc(check_name, category, ms)
         IN  [k \in 1..Len(found) |-> <<check_name, category, found[k]>>]

\* One category check on one category: skipped when any metric lists it in
\* no_lint, else one nit per message, scoped to the category name.
CategoryCheckNits(check_name, category, ms) ==
    IF \E k \in 1..Len(ms) : check_name \in Range(ms[k].no_lint)
    THEN <<>>
    ELSE LET found == CategoryCheckFunc(check_name, category, ms)
         IN  [k \in 1..Len(found) |-> <<check_name, category, found[k]>>]

\* IndividualCheckNits without the else branch of "if len(new_nits)".
IndividualCheckNits_NeverSuperfluous(check_name, m, config) ==
    LET new_nits == IndividualCheckFunc(check_name, m, config)
    IN  IF Len(new_nits) # 0 /\ check_name \notin Range(m.no_lint)
        THEN [k \in 1..Len(new_nits) |-> <<check_name, Scope(m), new_nits[k]>>]
        ELSE <<>>

\* IndividualCheckNits without the test "check_name not in metric.no_lint".
IndividualCheckNits_IgnoreNoLint(check_name, m, config) ==
    LET new_nits == IndividualCheckFunc(check_name, m, config)
    IN  IF Len(new_nits) # 0
        THEN [k \in 1..Len(new_nits) |-> <<check_name, Scope(m), new_nits[k]>>]
        ELSE IF /\ check_name \notin Range(CATEGORY_CHECKS)
                /\ check_name \in Range(m.no_lint)
             THEN <<<<"SUPERFLUOUS_NO_LINT", Scope(m),
                      [text |-> "Superfluous no_lint entry",
                       args |-> <<<<check_name>>>>]>>>>
             ELSE <<>>

\* IndividualCheckNits appending one SUPERFLUOUS_NO_LINT nit per occurrence
\* of the check name in no_lint.
IndividualCheckNits_PerEntry(check_name, m, config) ==
    LET new_nits == IndividualCheckFunc(check_name, m, config)
        entries == SelectSeq(m.no_lint, LAMBDA e : e = check_name)
    IN  IF Len(new_nits) # 0
        THEN IF check_name \notin Range(m.no_lint)
             THEN [k \in 1..Len(new_nits) |-> <<check_name, Scope(m), new_nits[k]>>]
             ELSE <<>>
        ELSE [k \in 1..Len(entries) |->
                 <<"SUPERFLUOUS_NO_LINT", Scope(m),
                   [text |-> "Superfluous no_lint entry",
                    args |-> <<<<check_name>>>>]>>]

\* One individual check on one metric: its nits unless no_lint lists it, and
\* the SUPERFLUOUS_NO_LINT nit when it found nothing and no_lint lists it.
IndividualCheckNits(check_name, m, config) ==
    LET new_nits == IndividualCheckFunc(check_name, m, config)
    IN  IF Len(new_nits) # 0
        THEN IF check_name \notin Range(m.no_lint)
             THEN [k \in 1..Len(new_nits) |-> <<check_name, Scope(m), new_nits[k]>>]
             ELSE <<>>
        ELSE IF /\ check_name \notin Range(CATEGORY_CHECKS)
                /\ check_name \in Range(m.no_lint)
             THEN <<<<"SUPERFLUOUS_NO_LINT", Scope(m),
                      [text |-> "Superfluous no_lint entry",
                       args |-> <<<<check_name>>>>]>>>>
             ELSE <<>>

\* The inner loop over INDIVIDUAL_CHECKS for one metric.
MetricNits(m, config) ==
    Flatten([c \in 1..Len(INDIVIDUAL_CHECKS) |->
                IndividualCheckNits(INDIVIDUAL_CHECKS[c], m, config)])

\* MetricsLoop iterating metrics.items() without sorted().
MetricsLoop_Unsorted(category_metrics, config) ==
    Flatten([k \in 1..Len(category_metrics) |->
                MetricNits(category_metrics[k][2], config)])

\* The loop over the metrics of one category, sorted by their key.
MetricsLoop(category_metrics, config) ==
    LET items == SortedItems(category_metrics)
    IN  Flatten([k \in 1..Len(items) |-> MetricNits(items[k][2], config)])

\* The loop over CATEGORY_CHECKS for one category; the checks receive
\* metrics.values(), the metrics in insertion order.
CategoryLoop(category, category_metrics) ==
    Flatten([c \in 1..Len(CATEGORY_CHECKS) |->
                CategoryCheckNits(CATEGORY_CHECKS[c], category,
                                  Values(category_metrics))])

\* CategoryNits without the test for "pings".
CategoryNits_NoSkip(category, category_metrics, config) ==
    CategoryLoop(category, category_metrics)
    \o MetricsLoop(category_metrics, config)

\* The body of the outer loop for one item of objs.
CategoryNits(category, category_metrics, config) ==
    IF category = <<"p", "i", "n", "g", "s">> THEN <<>>
    ELSE CategoryLoop(category, category_metrics)
         \o MetricsLoop(category_metrics, config)

\* lint_metrics iterating objs.items() without sorted().
lint_metrics_Unsorted(tree, config) ==
    Flatten([k \in 1..Len(tree) |->
                CategoryNits(tree[k][1], tree[k][2], config)])

\* The list lint_metrics returns.
lint_metrics(tree, config) ==
    LET items == SortedItems(tree)
    IN  Flatten([k \in 1..Len(items) |->
                    CategoryNits(items[k][1], items[k][2], config)])

\* What lint_metrics prints for a list of nits: nothing for the empty list,
\* else the header, one line per nit, a blank line and the two trailers.
Report(found) ==
    IF Len(found) # 0
    THEN <<<<"Sorry, Glean found some glinter nits:">>>>
         \o [k \in 1..Len(found) |-> <<"nit", found[k]>>]
         \o <<<<"">>, <<"Please fix the above nits to continue.">>,
              <<"To disable a check, add a no_lint parameter">>>>
    ELSE <<>>

----------------------------------------------------------------------------
(* The trees handed to lint_metrics *)

\* The largest number of metrics in a tree.
MaxTreeMetrics == 2

S_pings == <<"p", "i", "n", "g", "s">>
S_metrics == <<"m", "e", "t", "r", "i", "c", "s">>
S_events == <<"e", "v", "e", "n", "t", "s">>
S_baseline == <<"b", "a", "s", "e", "l", "i", "n", "e">>
S_ui == <<"u", "i">>
S_url == <<"h", "t", "t", "p", "s">>

CategoryNames == {S_pings, S_metrics, S_ui}

MetricNames ==
    {<<"f", "o", "o", "_", "m", "s">>, <<"f", "o", "o", ".", "b", "a", "r">>,
     <<"b", "a", "z">>}

IntBug(digits) == [isint |-> TRUE, text |-> digits]
UrlBug == [isint |-> FALSE, text |-> S_url]

\* What a metrics.yaml entry gives a metric besides its category and name.
Bodies ==
    { [send_in_pings |-> <<S_metrics>>, bugs |-> <<UrlBug>>, no_lint |-> <<>>],
      [send_in_pings |-> <<S_baseline, <<"m", "e", "t", "r", "i", "c">>>>,
       bugs |-> <<IntBug(<<"1", "2">>), UrlBug, IntBug(<<"7">>)>>,
       no_lint |-> <<>>,
       time_unit |-> [name |-> <<"m", "i", "l", "l", "i", "s", "e", "c", "o", "n", "d">>]],
      [send_in_pings |-> << <<"m", "e", "t", "r", "i", "c">>, <<"e", "v", "e", "n", "t">> >>,
       bugs |-> <<IntBug(<<"1", "2">>)>>,
       no_lint |-> <<"MISSPELLED_PING", "BUG_NUMBER">>],
      [send_in_pings |-> <<S_metrics>>, bugs |-> <<UrlBug>>,
       no_lint |-> <<"BUG_NUMBER", "UNIT_IN_NAME", "SUPERFLUOUS_NO_LINT", "BUG_NUMBER">>,
       time_unit |-> [name |-> <<"s", "e", "c", "o", "n", "d">>]],
      [send_in_pings |-> <<S_baseline>>, bugs |-> <<IntBug(<<"7">>)>>,
       no_lint |-> <<"COMMON_PREFIX", "BUG_NUMBR">>],
      [send_in_pings |-> <<S_events>>, bugs |-> <<>>,
       no_lint |-> <<"CATEGORY_GENERIC", "BASELINE_PING">>] }

\* The metric object the parser builds for an entry: it carries the category
\* and the name it is filed under.
MakeMetric(category, name, body) ==
    [f \in DOMAIN body \cup {"category", "name"} |->
        CASE f = "category" -> category
          [] f = "name" -> name
          [] OTHER -> body[f]]

\* The elements of a set of strings as a list in ascending order.
RECURSIVE Ascending(_)
Ascending(S) ==
    IF S = {} THEN <<>>
    ELSE LET least == CHOOSE x \in S : \A y \in S \ {x} : StrLess(x, y)
         IN  <<least>> \o Ascending(S \ {least})

\* The tree whose metrics are the slots <<category, name>> of the domain of
\* bodyOf, inserted in ascending order.
MakeTree(bodyOf) ==
    LET slots == DOMAIN bodyOf
        cats == Ascending({s[1] : s \in slots})
        names(c) == Ascending({s[2] : s \in {x \in slots : x[1] = c}})
    IN  [i \in 1..Len(cats) |->
            <<cats[i],
              [j \in 1..Len(names(cats[i])) |->
                  <<names(cats[i])[j],
                    MakeMetric(cats[i], names(cats[i])[j],
                               bodyOf[<<cats[i], names(cats[i])[j]>>])>>]>>]

\* The places <<category, name>> a tree may file an entry under; the "pings"
\* category holds one entry at most.
Slots ==
    {s \in CategoryNames \X MetricNames :
        s[1] = S_pings => s[2] = <<"f", "o", "o", "_", "m", "s">>}

Trees ==
    { MakeTree(bodyOf) :
        bodyOf \in UNION { [slots -> Bodies] :
            slots \in {s \in SUBSET Slots :
                          Cardinality(s) \in 1..MaxTreeMetrics} } }

Configs == { <<>>, <<<<"allow_reserved", TRUE>>>> }

\* The lists with the elements of s in any order.
Perms(s) ==
    {p \in [1..Len(s) -> Range(s)] : Range(p) = Range(s)}

\* The trees with the items of tree, and the items of each of its categories,
\* inserted in any order.
Reinserted(tree) ==
    UNION { {t \in [1..Len(outer) -> UNION {{<<outer[i][1], inner>> :
                                                 inner \in Perms(outer[i][2])} :
                                             i \in 1..Len(outer)}] :
                \A i \in 1..Len(outer) :
                    /\ t[i][1] = outer[i][1]
                    /\ t[i][2] \in Perms(outer[i][2])} :
            outer \in Perms(tree) }

----------------------------------------------------------------------------
(* The driver: lint_metrics called on a tree, then called again after the  *)
(* caller rebuilt the tree in another insertion order or without "pings".  *)

NoMetric == [name |-> <<>>]

InitLint ==
    /\ objs \in Trees
    /\ parser_config \in Configs
    /\ nits = <<>>
    /\ file = <<>>
    /\ prev = <<>>
    /\ edit = [kind |-> "none", removed |-> <<>>]
    /\ category_name = <<>>
    /\ metrics = <<>>
    /\ metric = NoMetric
    /\ msgs = <<>>
    /\ pc = "ready"

LintMetrics ==
    /\ pc = "ready"
    /\ LET found == lint_metrics(objs, parser_config)
       IN  nits' = found /\ file' = file \o Report(found)
    /\ pc' = "returned"
    /\ UNCHANGED <<objs, parser_config, prev, edit, category_name, metrics,
                   metric, msgs>>

Reinsert ==
    /\ pc = "returned"
    /\ edit.kind = "none"
    /\ \E tree \in Reinserted(objs) \ {objs} :
        objs' = tree
    /\ prev' = nits
    /\ edit' = [kind |-> "reinsert", removed |-> <<>>]
    /\ pc' = "ready"
    /\ UNCHANGED <<parser_config, nits, file, category_name, metrics, metric, msgs>>

DropPings ==
    /\ pc = "returned"
    /\ edit.kind = "none"
    /\ \E i \in 1..Len(objs) : objs[i][1] = S_pings
    /\ objs' = SelectSeq(objs, LAMBDA item : item[1] # S_pings)
    /\ prev' = nits
    /\ edit' = [kind |-> "drop_pings",
                removed |-> SelectSeq(objs, LAMBDA item : item[1] = S_pings)]
    /\ pc' = "ready"
    /\ UNCHANGED <<parser_config, nits, file, category_name, metrics, metric, msgs>>

NextLint == LintMetrics \/ Reinsert \/ DropPings

Spec == InitLint /\ [][NextLint]_vars

----------------------------------------------------------------------------
(* Properties of the list lint_metrics returns *)

Returned == pc = "returned"

\* The metrics of the categories other than "pings".
LintedMetrics ==
    UNION { {objs[i][2][j][2] : j \in 1..Len(objs[i][2])} :
            i \in {k \in 1..Len(objs) : objs[k][1] # S_pings} }

\* The items of objs other than "pings".
LintedCategories == {objs[i] : i \in {k \in 1..Len(objs) : objs[k][1] # S_pings}}

\* The messages check c yields for metric m under the configuration in use.
Yields(c, m) == IndividualCheckFunc(c, m, parser_config)

IsIndividual(c) == c \in Range(INDIVIDUAL_CHECKS)
IsCategoryLevel(c) == c \in Range(CATEGORY_CHECKS)

\* Nit n is the SUPERFLUOUS_NO_LINT finding of metric m for no_lint entry e.
IsSuperfluous(n, m, e) ==
    /\ n[1] = "SUPERFLUOUS_NO_LINT"
    /\ n[2] = Scope(m)
    /\ n[3].args = <<<<e>>>>

\* C3 as stated: every no_lint entry that is not the name of a check that
\* produced findings for its metric (a misspelled name and the name of a
\* category-level check included) has a diagnostic finding in the returned
\* list.
C3_EveryStaleEntryDiagnosed ==
    Returned =>
        \A m \in LintedMetrics : \A e \in Range(m.no_lint) :
            ~(IsIndividual(e) /\ Yields(e, m) # <<>>)
                => \E k \in 1..Len(nits) : IsSuperfluous(nits[k], m, e)

\* C3 as amended: a no_lint entry has a SUPERFLUOUS_NO_LINT finding exactly
\* when it names an individual-level check that yields no message for the
\* metric; an entry that names no individual-level check (a misspelled name,
\* the name of a category-level check) has no such finding, and no finding
\* of the metric or of its category carries its name.
C3_StaleIndividualEntryDiagnosed ==
    Returned =>
        \A m \in LintedMetrics : \A e \in Range(m.no_lint) :
            /\ (IsIndividual(e) /\ Yields(e, m) = <<>>)
                   <=> \E k \in 1..Len(nits) : IsSuperfluous(nits[k], m, e)
            /\ ~IsIndividual(e) /\ e # "SUPERFLUOUS_NO_LINT"
                   => \A k \in 1..Len(nits) :
                          nits[k][2] \in {Scope(m), m.category} => nits[k][1] # e

\* A returned list for a metric with a misspelled entry, a category-level
\* entry and a stale individual-level entry.
C3_Witness ==
    /\ Returned
    /\ \E m \in LintedMetrics :
        /\ \E e \in Range(m.no_lint) : ~IsIndividual(e) /\ ~IsCategoryLevel(e)
                                        /\ e # "SUPERFLUOUS_NO_LINT"
        /\ \E e \in Range(m.no_lint) : IsCategoryLevel(e)
    /\ \E m \in LintedMetrics : \E e \in Range(m.no_lint) : \E k \in 1..Len(nits) :
        IsSuperfluous(nits[k], m, e)

\* C4 as stated: the returned list never holds a finding (check_name,
\* "<category>.<name>", message) for a metric whose no_lint holds check_name,
\* and no SUPERFLUOUS_NO_LINT finding for a check that yields messages.
C4_NoFindingUnderNoLint ==
    Returned =>
        \A m \in LintedMetrics : \A k \in 1..Len(nits) :
            nits[k][2] = Scope(m) =>
                /\ nits[k][1] \notin Range(m.no_lint)
                /\ \A c \in Range(m.no_lint) :
                       IsIndividual(c) /\ Yields(c, m) # <<>>
                           => ~IsSuperfluous(nits[k], m, c)

\* C4 as amended: the returned list never holds a finding of a check for a
\* metric whose no_lint names that check, and no SUPERFLUOUS_NO_LINT finding
\* for a check that yields messages; SUPERFLUOUS_NO_LINT itself is no check
\* and naming it in no_lint suppresses nothing.
C4_NoCheckFindingUnderNoLint ==
    Returned =>
        \A m \in LintedMetrics : \A k \in 1..Len(nits) :
            nits[k][2] = Scope(m) =>
                /\ nits[k][1] # "SUPERFLUOUS_NO_LINT"
                       => nits[k][1] \notin Range(m.no_lint)
                /\ \A c \in Range(m.no_lint) :
                       IsIndividual(c) /\ Yields(c, m) # <<>>
                           => ~IsSuperfluous(nits[k], m, c)

\* A returned list for a metric that suppresses a check which yields two
\* messages for it.
C4_Witness ==
    /\ Returned
    /\ \E m \in LintedMetrics : \E c \in Range(m.no_lint) :
        IsIndividual(c) /\ Len(Yields(c, m)) >= 2

\* C5: for every metric outside "pings" and every individual-level check C,
\* the returned list holds exactly one SUPERFLUOUS_NO_LINT finding scoped to
\* the metric and naming C if C is in no_lint and C yields no message for the
\* metric, and none otherwise.
C5_ExactlyOneSuperfluous ==
    Returned =>
        \A m \in LintedMetrics : \A c \in Range(INDIVIDUAL_CHECKS) :
            Cardinality({k \in 1..Len(nits) : IsSuperfluous(nits[k], m, c)})
                = IF c \in Range(m.no_lint) /\ Yields(c, m) = <<>> THEN 1 ELSE 0

\* A returned list for a metric that lists a check twice which yields nothing
\* for it, and a metric that lists a check which yields something.
C5_Witness ==
    /\ Returned
    /\ \E m \in LintedMetrics : \E c \in Range(INDIVIDUAL_CHECKS) :
        /\ Yields(c, m) = <<>>
        /\ Cardinality({i \in 1..Len(m.no_lint) : m.no_lint[i] = c}) = 2
    /\ \E m \in LintedMetrics : \E c \in Range(INDIVIDUAL_CHECKS) :
        c \in Range(m.no_lint) /\ Yields(c, m) # <<>>

\* The findings of check c scoped to category cat, in the order of the list.
CategoryFindings(c, cat) ==
    SelectSeq(nits, LAMBDA n : n[1] = c /\ n[2] = cat)

\* C6: a category-level check contributes its findings for a category if and
\* only if no metric of the category lists the check in no_lint, one metric
\* listing it removes all of them, and no SUPERFLUOUS_NO_LINT finding ever
\* names a category-level check.
C6_CategorySuppression ==
    Returned =>
        /\ \A item \in LintedCategories : \A c \in Range(CATEGORY_CHECKS) :
            LET found == CategoryCheckFunc(c, item[1], Values(item[2]))
                listed == \E j \in 1..Len(item[2]) :
                              c \in Range(item[2][j][2].no_lint)
            IN  CategoryFindings(c, item[1]) =
                    IF listed THEN <<>>
                    ELSE [k \in 1..Len(found) |-> <<c, item[1], found[k]>>]
        /\ \A k \in 1..Len(nits) :
            nits[k][1] = "SUPERFLUOUS_NO_LINT"
                => ~IsCategoryLevel(nits[k][3].args[1][1])

\* A returned list for a category of two metrics with a common prefix, only
\* one of which lists COMMON_PREFIX, and for a metric that lists a
\* category-level check which would have found nothing.
C6_Witness ==
    /\ Returned
    /\ \E item \in LintedCategories :
        /\ Len(item[2]) = 2
        /\ check_common_prefix(item[1], Values(item[2])) # <<>>
        /\ "COMMON_PREFIX" \in Range(item[2][1][2].no_lint)
        /\ "COMMON_PREFIX" \notin Range(item[2][2][2].no_lint)
    /\ \E item \in LintedCategories : \E c \in Range(CATEGORY_CHECKS) :
        /\ CategoryCheckFunc(c, item[1], Values(item[2])) = <<>>
        /\ \E j \in 1..Len(item[2]) : c \in Range(item[2][j][2].no_lint)

\* The position of a name in a registry.
Position(registry, c) == CHOOSE i \in 1..Len(registry) : registry[i] = c

\* The place of a finding in the order of C7: its category, category scope
\* before metric scope, its metric's name, and the position in its registry
\* of the check it is about.
SortKey(n) ==
    IF IsCategoryLevel(n[1])
    THEN [category |-> n[2], level |-> 0, name |-> <<>>,
          check |-> Position(CATEGORY_CHECKS, n[1])]
    ELSE LET m == CHOOSE x \in LintedMetrics : Scope(x) = n[2]
         IN  [category |-> m.category, level |-> 1, name |-> m.name,
              check |-> Position(INDIVIDUAL_CHECKS,
                                 IF n[1] = "SUPERFLUOUS_NO_LINT"
                                 THEN n[3].args[1][1] ELSE n[1])]

KeyLeq(a, b) ==
    \/ StrLess(a.category, b.category)
    \/ /\ a.category = b.category
       /\ \/ a.level < b.level
          \/ /\ a.level = b.level
             /\ \/ StrLess(a.name, b.name)
                \/ a.name = b.name /\ a.check <= b.check

\* C7: the returned list is ordered by category name, then category-scoped
\* findings (COMMON_PREFIX before CATEGORY_GENERIC) before metric-scoped
\* ones, then by metric name, then by the registry order of the individual
\* checks, a SUPERFLUOUS_NO_LINT finding standing where its check stands.
C7_Order ==
    Returned =>
        \A k, l \in 1..Len(nits) :
            k < l => KeyLeq(SortKey(nits[k]), SortKey(nits[l]))

\* A returned list, for a tree not inserted in ascending order, that holds
\* findings of two categories, a category-scoped finding, a superfluous
\* finding, and two findings of one metric.
C7_Witness ==
    /\ Returned
    /\ edit.kind = "reinsert"
    /\ \E k, l \in 1..Len(nits) :
        /\ ~IsCategoryLevel(nits[k][1]) /\ ~IsCategoryLevel(nits[l][1])
        /\ SortKey(nits[k]).category # SortKey(nits[l]).category
    /\ \E k \in 1..Len(nits) : IsCategoryLevel(nits[k][1])
    /\ \E k \in 1..Len(nits) : nits[k][1] = "SUPERFLUOUS_NO_LINT"
    /\ \E k, l \in 1..Len(nits) :
        k # l /\ nits[k][2] = nits[l][2] /\ nits[k][1] # nits[l][1]

\* C8: lint_metrics returns the same list, in the same order, for a tree
\* with the same categories and metrics inserted in another order.
C8_InsertionOrderIndependent ==
    Returned /\ edit.kind = "reinsert" => nits = prev

\* A second call, on a tree whose two categories were inserted in descending
\* order, that returns findings of both.
C8_Witness ==
    /\ Returned
    /\ edit.kind = "reinsert"
    /\ Len(objs) = 2
    /\ StrLess(objs[2][1], objs[1][1])
    /\ \E k, l \in 1..Len(nits) :
        SortKey(nits[k]).category # SortKey(nits[l]).category

\* s starts with the characters of p.
StartsWith(s, p) == Len(s) >= Len(p) /\ SubSeq(s, 1, Len(p)) = p

\* C9: whatever the "pings" category holds, the returned list has no finding
\* scoped to "pings" or to a member of it, and it is the list returned for
\* the tree without the "pings" category.
C9_PingsSkipped ==
    Returned =>
        /\ \A k \in 1..Len(nits) :
            nits[k][2] # S_pings /\ ~StartsWith(nits[k][2], S_pings \o <<".">>)
        /\ edit.kind = "drop_pings" => nits = prev

\* A second call, with findings, after the caller removed a "pings" category
\* on whose entries the checks would have produced findings.
C9_Witness ==
    /\ Returned
    /\ edit.kind = "drop_pings"
    /\ nits # <<>>
    /\ MetricsLoop(edit.removed[1][2], parser_config) # <<>>

----------------------------------------------------------------------------
(* check_common_prefix called on one category *)

\* The largest number of metrics in the category.
MaxPrefixMetrics == 3

PrefixNames ==
    { <<"f", "o", "o">>,
      <<"f", "o", "o", "_", "b", "a", "r">>,
      <<"f", "o", "o", ".", "b", "a", "r">>,
      <<"f", "o", "o", "_", "b", "a", "z">>,
      <<"f", "o", "o", "_", "b", "a", "r", "_", "b", "a", "z">>,
      <<"b", "a", "r", "_", "b", "a", "z">>,
      <<"_", "f", "o", "o">>,
      <<"_", "b", "a", "r">> }

\* metrics.values() of a category: metrics with distinct names, in any
\* insertion order.
PrefixMetricLists ==
    UNION { {ms \in [1..n -> {[category |-> S_ui, name |-> nm] : nm \in PrefixNames}] :
                \A i, j \in 1..n : i # j => ms[i].name # ms[j].name} :
            n \in 0..MaxPrefixMetrics }

InitPrefix ==
    /\ objs = <<>>
    /\ parser_config = <<>>
    /\ nits = <<>>
    /\ file = <<>>
    /\ prev = <<>>
    /\ edit = [kind |-> "none", removed |-> <<>>]
    /\ category_name = S_ui
    /\ metrics \in PrefixMetricLists
    /\ metric = NoMetric
    /\ msgs = <<>>
    /\ pc = "ready"

CheckCommonPrefix ==
    /\ pc = "ready"
    /\ msgs' = check_common_prefix(category_name, metrics)
    /\ pc' = "returned"
    /\ UNCHANGED <<objs, parser_config, nits, file, prev, edit, category_name,
                   metrics, metric>>

SpecPrefix == InitPrefix /\ [][CheckCommonPrefix]_vars

\* The word lists of the metrics of the category.
WordLists == {_split_words(metrics[k].name) : k \in 1..Len(metrics)}

\* The lexicographically smallest and largest word list.
Smallest == CHOOSE w \in WordLists : \A v \in WordLists : v = w \/ WordsLess(w, v)
Largest == CHOOSE w \in WordLists : \A v \in WordLists : v = w \/ WordsLess(v, w)

\* The full run of leading words on which a and b agree.
CommonRun(a, b) ==
    LET n == IF Len(a) < Len(b) THEN Len(a) ELSE Len(b)
        agree == {k \in 0..n : SubSeq(a, 1, k) = SubSeq(b, 1, k)}
    IN  SubSeq(a, 1, CHOOSE k \in agree : \A j \in agree : j <= k)

\* C1: for a category of at least 2 metrics whose smallest and largest word
\* lists agree on a non-empty full leading run P, check_common_prefix yields
\* exactly one message and it names P joined with "_".
C1_NamesFullCommonPrefix ==
    Returned /\ Len(metrics) >= 2 /\ CommonRun(Smallest, Largest) # <<>>
        => msgs = <<[text |-> "all metrics begin with prefix",
                     args |-> <<category_name,
                                Join(<<"_">>, CommonRun(Smallest, Largest))>>]>>

----------------------------------------------------------------------------
(* check_misspelled_pings called on one metric *)

\* The largest number of ping names in send_in_pings.
MaxPings == 2

\* The characters appended to or substituted in a builtin ping name.
EditChars == {"2", " ", "s", "x"}

\* Names one edit away from a builtin ping name, the builtin names themselves
\* and unrelated names.
PingEdits(b) ==
    {b, SubSeq(b, 1, Len(b) - 1), SubSeq(b, 2, Len(b)), SubSeq(b, 1, Len(b) - 2)}
    \cup {b \o <<c>> : c \in EditChars}
    \cup {b \o <<c, c>> : c \in {"2"}}
    \cup {[b EXCEPT ![i] = "x"] : i \in 1..Len(b)}

PingNames == PingEdits(S_metrics) \cup PingEdits(S_events) \cup {S_baseline}

PingMetrics ==
    { [category |-> S_ui, name |-> <<"b", "a", "z">>, bugs |-> <<>>,
       no_lint |-> <<>>, send_in_pings |-> pings] :
        pings \in UNION {[1..n -> PingNames] : n \in 0..MaxPings} }

InitPings ==
    /\ objs = <<>>
    /\ parser_config = <<>>
    /\ nits = <<>>
    /\ file = <<>>
    /\ prev = <<>>
    /\ edit = [kind |-> "none", removed |-> <<>>]
    /\ category_name = <<>>
    /\ metrics = <<>>
    /\ metric \in PingMetrics
    /\ msgs = <<>>
    /\ pc = "ready"

CheckMisspelledPings ==
    /\ pc = "ready"
    /\ msgs' = check_misspelled_pings(metric, parser_config)
    /\ pc' = "returned"
    /\ UNCHANGED <<objs, parser_config, nits, file, prev, edit, category_name,
                   metrics, metric>>

SpecPings == InitPings /\ [][CheckMisspelledPings]_vars

\* The character of s at position i once s is padded with spaces.
CharAt(s, i) == IF i <= Len(s) THEN s[i] ELSE " "

\* The number of positions at which a and b differ once the shorter one is
\* padded with spaces to the length of the longer one.
PaddedMismatches(a, b) ==
    LET n == IF Len(a) < Len(b) THEN Len(b) ELSE Len(a)
    IN  Cardinality({i \in 1..n : CharAt(a, i) # CharAt(b, i)})

Suggestion(ping, builtin) ==
    [text |-> "Ping seems misspelled", args |-> <<ping, builtin>>]

\* How often ping occurs in send_in_pings, and the messages about it.
Occurrences(ping) ==
    Cardinality({i \in 1..Len(metric.send_in_pings) : metric.send_in_pings[i] = ping})
MessagesAbout(ping) == SelectSeq(msgs, LAMBDA msg : msg.args[1] = ping)

\* A message for each (ping, builtin) pair exactly when the padded mismatch
\* count is 1.
MessageIffOneMismatch ==
    /\ \A k \in 1..Len(msgs) :
        /\ msgs[k].args[1] \in Range(metric.send_in_pings)
        /\ msgs[k].args[2] \in Range(builtin_pings)
    /\ \A ping \in Range(metric.send_in_pings) : \A b \in Range(builtin_pings) :
        Cardinality({k \in 1..Len(msgs) : msgs[k] = Suggestion(ping, b)})
            = IF PaddedMismatches(ping, b) = 1 THEN Occurrences(ping) ELSE 0

\* A builtin name with its last character removed yields exactly one
\* message, suggesting that builtin.
TruncatedBuiltinSuggested ==
    \A ping \in Range(metric.send_in_pings) : \A b \in Range(builtin_pings) :
        ping = SubSeq(b, 1, Len(b) - 1)
            => MessagesAbout(ping) = [k \in 1..Occurrences(ping) |-> Suggestion(ping, b)]

\* C2 as stated: a message for a (ping, builtin) pair exactly when the padded
\* mismatch count is 1; a builtin name without its last character yields
\* exactly one message suggesting the builtin; a builtin name with one extra
\* character appended yields no message.
C2_AppendedCharNoMessage ==
    Returned =>
        /\ MessageIffOneMismatch
        /\ TruncatedBuiltinSuggested
        /\ \A ping \in Range(metric.send_in_pings) : \A b \in Range(builtin_pings) :
            (Len(ping) = Len(b) + 1 /\ SubSeq(ping, 1, Len(b)) = b)
                => MessagesAbout(ping) = <<>>

\* C2 as amended: as stated, except that a builtin name with one extra
\* character appended yields exactly one message, suggesting the builtin,
\* unless the extra character is a space, and then it yields none.
C2_AppendedCharOneMessage ==
    Returned =>
        /\ MessageIffOneMismatch
        /\ TruncatedBuiltinSuggested
        /\ \A ping \in Range(metric.send_in_pings) : \A b \in Range(builtin_pings) :
            (Len(ping) = Len(b) + 1 /\ SubSeq(ping, 1, Len(b)) = b)
                => MessagesAbout(ping) =
                       IF ping[Len(ping)] = " " THEN <<>>
                       ELSE [k \in 1..Occurrences(ping) |-> Suggestion(ping, b)]

\* check_misspelled_pings has returned for the pings "metric" and "events2".
C2_Witness ==
    /\ Returned
    /\ metric.send_in_pings = << <<"m", "e", "t", "r", "i", "c">>, S_events \o <<"2">> >>
    /\ Len(msgs) = 2

----------------------------------------------------------------------------
(* check_unit_in_name called on one metric *)

\* The largest number of words before the last word of the metric name.
MaxLeadingWords == 1

\* The last word of the name: every unit name and abbreviation, and words
\* that are neither.
LastWords ==
    Range(Keys(TIME_UNIT_ABBREV)) \cup Range(Values(TIME_UNIT_ABBREV))
    \cup Range(Keys(MEMORY_UNIT_ABBREV)) \cup Range(Values(MEMORY_UNIT_ABBREV))
    \cup {<<"s", "e", "c", "o", "n", "d", "s">>, <<"x">>, <<>>}

\* The words before it, each followed by a delimiter.
LeadingParts ==
    UNION { [1..n -> {<<"t", "_">>, <<"t", ".">>}] : n \in 0..MaxLeadingWords }

UnitNames == {Flatten(lead) \o last : lead \in LeadingParts, last \in LastWords}

\* The unit attributes of a metric: each is absent (<<>>) or has a value.
TimeUnitChoices ==
    {<<>>} \cup {<<[name |-> u]>> : u \in Range(Keys(TIME_UNIT_ABBREV))}
MemoryUnitChoices ==
    {<<>>} \cup {<<[name |-> u]>> : u \in Range(Keys(MEMORY_UNIT_ABBREV))}
UnitChoices == {<<>>, <<<<"m", "s">>>>, <<<<"x">>>>, <<<<"b", "y", "t", "e">>>>}

UnitMetric(nm, tu, mu, u) ==
    [f \in {"category", "name"}
           \cup (IF tu # <<>> THEN {"time_unit"} ELSE {})
           \cup (IF mu # <<>> THEN {"memory_unit"} ELSE {})
           \cup (IF u # <<>> THEN {"unit"} ELSE {}) |->
        CASE f = "category" -> S_ui
          [] f = "name" -> nm
          [] f = "time_unit" -> tu[1]
          [] f = "memory_unit" -> mu[1]
          [] f = "unit" -> u[1]]

UnitMetrics ==
    { UnitMetric(nm, tu, mu, u) :
        nm \in UnitNames, tu \in TimeUnitChoices, mu \in MemoryUnitChoices,
        u \in UnitChoices }

InitUnit ==
    /\ objs = <<>>
    /\ parser_config = <<>>
    /\ nits = <<>>
    /\ file = <<>>
    /\ prev = <<>>
    /\ edit = [kind |-> "none", removed |-> <<>>]
    /\ category_name = <<>>
    /\ metrics = <<>>
    /\ metric \in UnitMetrics
    /\ msgs = <<>>
    /\ pc = "ready"

CheckUnitInName ==
    /\ pc = "ready"
    /\ msgs' = check_unit_in_name(metric, parser_config)
    /\ pc' = "returned"
    /\ UNCHANGED <<objs, parser_config, nits, file, prev, edit, category_name,
                   metrics, metric>>

SpecUnit == InitUnit /\ [][CheckUnitInName]_vars

\* The abbreviations of C10, and the unit names they stand for.
TimeAbbreviations == {<<"n", "s">>, <<"u", "s">>, <<"m", "s">>, <<"s">>, <<"m">>,
                      <<"h">>, <<"d">>}
MemoryAbbreviations == {<<"b">>, <<"k", "b">>, <<"m", "b">>, <<"g", "b">>}
TimeUnitNames == Range(Keys(TIME_UNIT_ABBREV))
MemoryUnitNames == Range(Keys(MEMORY_UNIT_ABBREV))

\* The last word of the metric name.
LastWord == LET ws == _split_words(metric.name) IN ws[Len(ws)]

\* The unit's own name and abbreviation.
OwnWords(table, unit) ==
    {unit} \cup {table[i][2] : i \in {k \in 1..Len(table) : table[k][1] = unit}}

\* The message C10 describes for a metric with a time_unit or memory_unit.
ExpectedForTable(field, table, names, abbreviations, unit) ==
    IF LastWord \in OwnWords(table, unit)
    THEN <<[text |-> "Suffix is redundant with " \o field, args |-> <<LastWord>>]>>
    ELSE IF LastWord \in names \cup abbreviations
    THEN <<[text |-> "Suffix doesn't match " \o field, args |-> <<LastWord>>]>>
    ELSE <<>>

\* C10: check_unit_in_name yields at most one message, decided by the last
\* word of the name and the first populated field among time_unit,
\* memory_unit and unit: "redundant" when the last word is the unit's own
\* name or abbreviation, "mismatch" when it is another name or abbreviation
\* of the same table, nothing otherwise; for a plain unit, "redundant"
\* exactly when the last word equals the unit string.
C10_UnitInName ==
    Returned =>
        /\ Len(msgs) <= 1
        /\ msgs =
            IF "time_unit" \in DOMAIN metric
            THEN ExpectedForTable("time_unit", TIME_UNIT_ABBREV, TimeUnitNames,
                                  TimeAbbreviations, metric.time_unit.name)
            ELSE IF "memory_unit" \in DOMAIN metric
            THEN ExpectedForTable("memory_unit", MEMORY_UNIT_ABBREV, MemoryUnitNames,
                                  MemoryAbbreviations, metric.memory_unit.name)
            ELSE IF "unit" \in DOMAIN metric
            THEN IF LastWord = metric.unit
                 THEN <<[text |-> "Suffix is redundant with unit param",
                         args |-> <<LastWord>>]>>
                 ELSE <<>>
            ELSE <<>>

\* check_unit_in_name has returned a mismatch for a millisecond metric that
\* has all three fields and whose name ends in "second".
C10_Witness ==
    /\ Returned
    /\ {"time_unit", "memory_unit", "unit"} \subseteq DOMAIN metric
    /\ LastWord = <<"s", "e", "c", "o", "n", "d">>
    /\ metric.time_unit.name = <<"m", "i", "l", "l", "i", "s", "e", "c", "o", "n", "d">>
    /\ metric.unit = <<"m", "s">>
    /\ msgs = <<[text |-> "Suffix doesn't match time_unit",
                 args |-> <<<<"s", "e", "c", "o", "n", "d">>>>]>>

====
